---- MODULE Spec2Model ----
(***************************************************************************)
(* Model of Scripts/validate_flags.py: the validator of the generated PNG  *)
(* resources of CircleFlagsKit.                                            *)
(*                                                                         *)
(* A Python str is modelled as a sequence of one-character strings, so     *)
(* that strip(), lower(), the two regular expressions, Path.stem,          *)
(* Path.suffix and sorted() are computed the way the interpreter computes  *)
(* them.  The optional values (None or a value) are sequences of length 0  *)
(* or 1.                                                                   *)
(***************************************************************************)
EXTENDS Integers, Sequences, FiniteSets, TLC

VARIABLES
    res_kind,        \* what --resources points at: "missing", "file" or "dir"
    res_entries,     \* the directory's entries: name -> "file" or "dir"
    al_kind,         \* what --allowlist points at: "missing", "dir", "binary", "text"
    al_content,      \* the text of the allowlist file
    args,            \* the parsed command line (argparse namespace)
    cfg,             \* ValidationConfig
    pc,              \* position in main
    errors,          \* errors: list[str]
    warnings,        \* warnings: list[str]
    pngs,            \* pngs: list[Path]
    idx,             \* position of the for loop over pngs
    seen_normalized, \* seen_normalized: dict[str, Path]
    ret_site,        \* which return statement main is heading to
    exit_code,       \* the value main returned, -1 before it returns
    report_calls,    \* number of calls of report
    output,          \* the lines printed, each with its stream
    vf_code,         \* argument of the latest validate_filename call
    vf_result        \* its result

vars == << res_kind, res_entries, al_kind, al_content, args, cfg, pc, errors,
           warnings, pngs, idx, seen_normalized, ret_site, exit_code,
           report_calls, output, vf_code, vf_result >>

----------------------------------------------------------------------------
(* Characters and strings *)

LowerSeq == << "a", "b", "c", "d", "e", "f", "g", "h", "i", "j", "k", "l", "m",
               "n", "o", "p", "q", "r", "s", "t", "u", "v", "w", "x", "y", "z" >>

UpperSeq == << "A", "B", "C", "D", "E", "F", "G", "H", "I", "J", "K", "L", "M",
               "N", "O", "P", "Q", "R", "S", "T", "U", "V", "W", "X", "Y", "Z" >>

DigitSeq == << "0", "1", "2", "3", "4", "5", "6", "7", "8", "9" >>

Range(f) == { f[i] : i \in DOMAIN f }

LowerLetters == Range(LowerSeq)

Digits == Range(DigitSeq)

\* the characters str.strip() removes (the ASCII ones)
Whitespace == { " ", "\t", "\n", "\r", "\f" }

\* the characters of the model in code point order
CodePoints == << "\t", "\n", "\f", "\r", " ", "#", "-", "." >> \o DigitSeq
                 \o UpperSeq \o << "_" >> \o LowerSeq

\* ord() of the characters of the model, up to a monotone renumbering
OrdTable ==
    [ c \in Range(CodePoints) |->
        CHOOSE i \in 1..Len(CodePoints) : CodePoints[i] = c ]

Ord(c) == OrdTable[c]

\* s < t on str
StrLess(s, t) ==
    \E k \in 1..(Len(s) + 1) :
        /\ k <= Len(t)
        /\ \A j \in 1..(k - 1) : s[j] = t[j]
        /\ \/ k = Len(s) + 1
           \/ Ord(s[k]) < Ord(t[k])

\* str.lower() on one character
LowerTable ==
    [ c \in Range(UpperSeq) |->
        LowerSeq[CHOOSE i \in 1..Len(UpperSeq) : UpperSeq[i] = c] ]

LowerChar(c) == IF c \in DOMAIN LowerTable THEN LowerTable[c] ELSE c

\* str.lower()
Lower(s) == [ i \in 1..Len(s) |-> LowerChar(s[i]) ]

\* str.strip()
Strip(s) ==
    LET keep == { i \in 1..Len(s) : s[i] \notin Whitespace }
    IN  IF keep = {} THEN << >>
        ELSE LET lo == CHOOSE i \in keep : \A j \in keep : i <= j
                 hi == CHOOSE i \in keep : \A j \in keep : i >= j
             IN  SubSeq(s, lo, hi)

\* code.strip().lower()
Normalize(s) == Lower(Strip(s))

\* the position where the pattern's $ may stand: the end of the string, or just
\* before a newline that ends the string
DollarAt(s, i) ==
    \/ i = Len(s) + 1
    \/ i = Len(s) /\ s[i] = "\n"

\* ALPHA2_RE.match(code): ^[a-z]{2}$
ALPHA2_RE(code) ==
    /\ Len(code) >= 2
    /\ code[1] \in LowerLetters
    /\ code[2] \in LowerLetters
    /\ DollarAt(code, 3)

\* DEFAULT_PNG_RE.match(code): ^[a-z0-9][a-z0-9\-]*$
DEFAULT_PNG_RE(code) ==
    /\ Len(code) >= 1
    /\ code[1] \in LowerLetters \cup Digits
    /\ \E k \in 1..Len(code) :
          /\ \A j \in 2..k : code[j] \in LowerLetters \cup Digits \cup { "-" }
          /\ DollarAt(code, k + 1)

\* the reasons validate_filename gives
ReasonAlpha2 == "not ISO alpha-2 (expected exactly 2 lowercase letters)"

ReasonFormat == "invalid key format (expected lowercase letters/digits/dash)"

validate_filename(code, c) ==
    IF code \in c.extra_allowed_codes
    THEN [ ok |-> TRUE, reason |-> "None" ]
    ELSE IF c.strict_alpha2
         THEN IF ALPHA2_RE(code)
              THEN [ ok |-> TRUE, reason |-> "None" ]
              ELSE [ ok |-> FALSE, reason |-> ReasonAlpha2 ]
         ELSE IF DEFAULT_PNG_RE(code)
              THEN [ ok |-> TRUE, reason |-> "None" ]
              ELSE [ ok |-> FALSE, reason |-> ReasonFormat ]

----------------------------------------------------------------------------
(* Paths, the directory listing and the allowlist file *)

\* 1-based position of the last "." of name, 0 when it has none (str.rfind)
RFindDot(name) ==
    LET dots == { i \in 1..Len(name) : name[i] = "." }
    IN  IF dots = {} THEN 0 ELSE CHOOSE i \in dots : \A j \in dots : i >= j

\* PurePath.suffix: the last dot and what follows it, unless the dot is the
\* first or the last character of the name
Suffix(name) ==
    LET i == RFindDot(name)
    IN  IF 1 < i /\ i < Len(name) THEN SubSeq(name, i, Len(name)) ELSE << >>

\* PurePath.stem
Stem(name) ==
    LET i == RFindDot(name)
    IN  IF 1 < i /\ i < Len(name) THEN SubSeq(name, 1, i - 1) ELSE name

PngExt == << ".", "p", "n", "g" >>

\* sorted(...) of a set of strings
RECURSIVE Sorted(_)
Sorted(S) ==
    IF S = {} THEN << >>
    ELSE LET m == CHOOSE x \in S : \A y \in S \ { x } : StrLess(x, y)
         IN  << m >> \o Sorted(S \ { m })

\* the filter without p.is_file()
IsPng_AnyEntry(entries, name) == Lower(Suffix(name)) = PngExt

\* the filter of list_png_files: p.is_file() and p.suffix.lower() == ".png"
IsPng(entries, name) ==
    /\ entries[name] = "file"
    /\ Lower(Suffix(name)) = PngExt

list_png_files(entries) ==
    Sorted({ name \in DOMAIN entries : IsPng(entries, name) })

\* the line boundaries of str.splitlines() (the ASCII ones of the model)
LineBreaks == { "\n", "\r", "\f" }

\* str.splitlines(): "\r\n" is one boundary, a final boundary adds no line
RECURSIVE SplitLines(_)
SplitLines(s) ==
    LET brk == { i \in 1..Len(s) : s[i] \in LineBreaks }
    IN  IF s = << >> THEN << >>
        ELSE IF brk = {} THEN << s >>
        ELSE LET i == CHOOSE b \in brk : \A j \in brk : b <= j
                 last == IF s[i] = "\r" /\ i < Len(s) /\ s[i + 1] = "\n"
                         THEN i + 1 ELSE i
             IN  << SubSeq(s, 1, i - 1) >>
                     \o SplitLines(SubSeq(s, last + 1, Len(s)))

\* a line read_allowlist keeps: not empty and not a comment, after strip().lower()
KeepsLine(line) == line # << >> /\ line[1] # "#"

read_allowlist(content) ==
    { Normalize(raw) : raw \in
        { l \in Range(SplitLines(content)) : KeepsLine(Normalize(l)) } }

----------------------------------------------------------------------------
(* Messages *)

\* one formatted message: what it reports and the values its text interpolates
Msg(kind, reason, code, names, more) ==
    [ kind |-> kind, reason |-> reason, code |-> code, names |-> names,
      more |-> more ]

NoMsg == Msg("", "", << >>, << >>, 0)

\* "Resources directory does not exist: ..."
ErrNoDir == Msg("no_dir", "", << >>, << >>, 0)

\* "Resources path is not a directory: ..."
ErrNotDir == Msg("not_dir", "", << >>, << >>, 0)

\* "No PNG files found in: ..."
ErrNoPng == Msg("no_png", "", << >>, << >>, 0)

\* "Invalid filename: {p.name} ({reason})"
ErrInvalid(name, reason) == Msg("invalid", reason, << >>, << name >>, 0)

\* "Duplicate code after normalization: '{normalized}' - {first.name} - {p.name}"
ErrDuplicate(normalized, first, name) ==
    Msg("duplicate", "", normalized, << first, name >>, 0)

\* "Missing required fallback asset: {expected.name}"
ErrFallback(name) == Msg("missing_fallback", "", << >>, << name >>, 0)

\* "Allowlist file does not exist: ..."
ErrNoAllowlist == Msg("no_allowlist", "", << >>, << >>, 0)

\* "Missing PNGs for allowlist codes: - ..."
ErrMissing(missing) == Msg("missing_codes", "", << >>, missing, 0)

\* "Non-normalized filename: {p.name} (should be {normalized}.png)"
WarnNonNormalized(name, normalized) ==
    Msg("non_normalized", "", normalized, << name, normalized \o PngExt >>, 0)

\* the number of extra codes the warning lists
ExtraCap == 80

\* "Extra PNGs found not listed in allowlist (may be OK): - ... ...and N more"
WarnExtra(extra) ==
    Msg("extra", "", << >>,
        SubSeq(extra, 1, IF Len(extra) <= ExtraCap THEN Len(extra) ELSE ExtraCap),
        IF Len(extra) <= ExtraCap THEN 0 ELSE Len(extra) - ExtraCap)

----------------------------------------------------------------------------
(* The runs considered: directory states, command lines, allowlist files *)

\* the most entries a resources directory holds
MaxFiles == 3

s_us == << "u", "s" >>

s_gb == << "g", "b" >>

s_xx == << "x", "x" >>

s_u_s == << "u", "_", "s" >>

F_us == s_us \o PngExt

F_US == << "U", "S" >> \o PngExt

F_Us == << " ", "U", "s" >> \o PngExt

F_usPNG == s_us \o << ".", "P", "N", "G" >>

F_gb == s_gb \o PngExt

F_xx == s_xx \o PngExt

F_u_s == s_u_s \o PngExt

F_us1 == << "u", "s", "-", "1" >> \o PngExt

F_blank == << " " >> \o PngExt

F_txt == << "n", ".", "t", "x", "t" >>

\* the names an entry of the resources directory may have
FileNames == { F_us, F_US, F_Us, F_usPNG, F_gb, F_xx, F_u_s, F_us1, F_blank, F_txt }

\* the names that may also be the name of a sub-directory
SubdirNames == { F_xx }

Directories ==
    UNION { { [ n \in N |-> IF n \in D THEN "dir" ELSE "file" ] :
                D \in SUBSET (N \cap SubdirNames) } :
            N \in { M \in SUBSET FileNames : Cardinality(M) <= MaxFiles } }

\* --require-fallback: absent, "xx", " XX", " "
FallbackArgs == { << >>, << s_xx >>, << << " ", "X", "X" >> >>, << << " " >> >> }

\* --allow-extra: absent, or given twice as " U_S" and " "
ExtraArgs == { << >>, << << " ", "U", "_", "S" >>, << " " >> >> }

\* allowlist files: "us\ngb\nxx\n", "# c\r\n\n US \n", ""
AllowlistTexts ==
    { << "u", "s", "\n", "g", "b", "\n", "x", "x", "\n" >>,
      << "#", " ", "c", "\r", "\n", "\n", " ", "U", "S", " ", "\n" >>,
      << >> }

ArgSets ==
    [ allowlist : BOOLEAN, require_fallback : FallbackArgs,
      strict_alpha2 : BOOLEAN, allow_extra : ExtraArgs ]

NoCfg ==
    [ allowlist_path |-> FALSE, require_fallback_code |-> << >>,
      strict_alpha2 |-> FALSE, extra_allowed_codes |-> {} ]

NoResult == [ ok |-> TRUE, reason |-> "None" ]

EmptyDict == [ c \in {} |-> << >> ]

\* the state main starts from once its locals errors and warnings exist
Start ==
    /\ cfg = NoCfg
    /\ errors = << >>
    /\ warnings = << >>
    /\ pngs = << >>
    /\ idx = 1
    /\ seen_normalized = EmptyDict
    /\ ret_site = "none"
    /\ exit_code = -1
    /\ report_calls = 0
    /\ output = << >>
    /\ vf_code = << >>
    /\ vf_result = NoResult

Init ==
    /\ args \in ArgSets
    /\ \/ res_kind \in { "missing", "file" } /\ res_entries = EmptyDict
       \/ res_kind = "dir" /\ res_entries \in Directories
    /\ \/ args.allowlist /\ al_kind \in { "missing", "dir", "binary" }
                         /\ al_content = << >>
       \/ args.allowlist /\ al_kind = "text" /\ al_content \in AllowlistTexts
       \/ ~args.allowlist /\ al_kind = "missing" /\ al_content = << >>
    /\ pc = "configure"
    /\ Start

----------------------------------------------------------------------------
(* main *)

\* truth value of an optional str: neither None nor ""
Truthy(opt) == opt # << >> /\ opt[1] # << >>

\* extra_allowed: the non-blank --allow-extra values, plus the fallback code
ExtraAllowed(a) ==
    { Normalize(c) : c \in { x \in Range(a.allow_extra) : Strip(x) # << >> } }
        \cup (IF Truthy(a.require_fallback)
              THEN { Normalize(a.require_fallback[1]) } ELSE {})

MakeConfig(a) ==
    [ allowlist_path |-> a.allowlist,
      require_fallback_code |->
          IF Truthy(a.require_fallback)
          THEN << Normalize(a.require_fallback[1]) >> ELSE << >>,
      strict_alpha2 |-> a.strict_alpha2,
      extra_allowed_codes |-> ExtraAllowed(a) ]

\* the base name as it is, neither trimmed nor lower-cased
NormalizedCode_Raw(name) == Stem(name)

\* the code a file is checked under: p.stem.strip().lower()
NormalizedCode(name) == Normalize(Stem(name))

\* the duplicate test of the loop
IsDuplicate(seen, normalized, name) ==
    normalized \in DOMAIN seen /\ seen[normalized] # name

\* the map overwritten by every file
SeenAfter_Overwrite(seen, normalized, name) ==
    [ c \in DOMAIN seen \cup { normalized } |->
        IF c = normalized THEN name ELSE seen[c] ]

\* seen_normalized after one file
SeenAfter(seen, normalized, name) ==
    IF IsDuplicate(seen, normalized, name)
    THEN seen
    ELSE [ c \in DOMAIN seen \cup { normalized } |->
             IF c = normalized THEN name ELSE seen[c] ]

\* errors after one file
ErrorsAfterFile(errs, seen, name, c) ==
    LET normalized == NormalizedCode(name)
        r == validate_filename(normalized, c)
        e1 == IF r.ok THEN errs ELSE Append(errs, ErrInvalid(name, r.reason))
    IN  IF IsDuplicate(seen, normalized, name)
        THEN Append(e1, ErrDuplicate(normalized, seen[normalized], name))
        ELSE e1

\* warnings after one file
WarningsAfterFile(warns, name) ==
    IF Stem(name) # NormalizedCode(name)
    THEN Append(warns, WarnNonNormalized(name, NormalizedCode(name)))
    ELSE warns

\* expected.exists() for expected = resources_dir / f"{code}.png"
FallbackExists(entries, code) == (code \o PngExt) \in DOMAIN entries

\* the two sets taken the wrong way round
MissingCodes_Swapped(required, present) ==
    Sorted({ c \in present : c \notin required })

MissingCodes(required, present) == Sorted({ c \in required : c \notin present })

ExtraCodes(required, present) == Sorted({ c \in present : c \notin required })

\* the final return without its test of errors
ExitCodeOf_AlwaysZero(errs) == 0

\* 0 if not errors else 2
ExitCodeOf(errs) == IF errs = << >> THEN 0 ELSE 2

Line(stream, kind, msg) == [ stream |-> stream, kind |-> kind, msg |-> msg ]

\* report printing the success line only when nothing at all was recorded
ReportLines_OkOnlyWhenSilent(errs, warns) ==
    (IF warns # << >>
     THEN << Line("stderr", "warnings_heading", NoMsg) >>
              \o [ i \in 1..Len(warns) |-> Line("stderr", "warning", warns[i]) ]
     ELSE << >>)
    \o
    (IF errs # << >>
     THEN << Line("stderr", "errors_heading", NoMsg) >>
              \o [ i \in 1..Len(errs) |-> Line("stderr", "error", errs[i]) ]
              \o << Line("stderr", "failed", NoMsg) >>
     ELSE IF warns = << >> THEN << Line("stdout", "ok", NoMsg) >> ELSE << >>)

\* what report prints
ReportLines(errs, warns) ==
    (IF warns # << >>
     THEN << Line("stderr", "warnings_heading", NoMsg) >>
              \o [ i \in 1..Len(warns) |-> Line("stderr", "warning", warns[i]) ]
     ELSE << >>)
    \o
    (IF errs # << >>
     THEN << Line("stderr", "errors_heading", NoMsg) >>
              \o [ i \in 1..Len(errs) |-> Line("stderr", "error", errs[i]) ]
              \o << Line("stderr", "failed", NoMsg) >>
     ELSE << Line("stdout", "ok", NoMsg) >>)

inputs == << res_kind, res_entries, al_kind, al_content, args >>

loopvars == << pngs, idx, seen_normalized, vf_code, vf_result >>

\* lines 129-143
Configure ==
    /\ pc = "configure"
    /\ cfg' = MakeConfig(args)
    /\ pc' = "check_exists"
    /\ UNCHANGED << inputs, loopvars, errors, warnings, ret_site, exit_code,
                    report_calls, output >>

\* lines 145-146
CheckExists ==
    /\ pc = "check_exists"
    /\ IF res_kind = "missing"
       THEN /\ errors' = Append(errors, ErrNoDir)
            /\ ret_site' = "no_dir"
            /\ pc' = "report"
       ELSE /\ pc' = "check_is_dir"
            /\ UNCHANGED << errors, ret_site >>
    /\ UNCHANGED << inputs, loopvars, cfg, warnings, exit_code, report_calls,
                    output >>

\* lines 150-151
CheckIsDir ==
    /\ pc = "check_is_dir"
    /\ IF res_kind # "dir"
       THEN /\ errors' = Append(errors, ErrNotDir)
            /\ ret_site' = "not_dir"
            /\ pc' = "report"
       ELSE /\ pc' = "list_pngs"
            /\ UNCHANGED << errors, ret_site >>
    /\ UNCHANGED << inputs, loopvars, cfg, warnings, exit_code, report_calls,
                    output >>

\* lines 155-162, and line 167
Enumerate ==
    /\ pc = "list_pngs"
    /\ pngs' = list_png_files(res_entries)
    /\ IF pngs' = << >>
       THEN /\ errors' = Append(errors, ErrNoPng)
            /\ ret_site' = "no_png"
            /\ pc' = "report"
       ELSE /\ pc' = "validate"
            /\ UNCHANGED << errors, ret_site >>
    /\ UNCHANGED << inputs, cfg, idx, seen_normalized, vf_code, vf_result,
                    warnings, exit_code, report_calls, output >>

\* one iteration of the loop of lines 168-188
ValidateFile ==
    /\ pc = "validate"
    /\ idx <= Len(pngs)
    /\ LET name == pngs[idx]
       IN  /\ vf_code' = NormalizedCode(name)
           /\ vf_result' = validate_filename(NormalizedCode(name), cfg)
           /\ errors' = ErrorsAfterFile(errors, seen_normalized, name, cfg)
           /\ seen_normalized' =
                  SeenAfter(seen_normalized, NormalizedCode(name), name)
           /\ warnings' = WarningsAfterFile(warnings, name)
    /\ idx' = idx + 1
    /\ pc' = IF idx = Len(pngs) THEN "fallback" ELSE "validate"
    /\ UNCHANGED << inputs, cfg, pngs, ret_site, exit_code, report_calls,
                    output >>

\* lines 191-194
CheckFallback ==
    /\ pc = "fallback"
    /\ errors' =
           IF /\ Truthy(cfg.require_fallback_code)
              /\ ~FallbackExists(res_entries, cfg.require_fallback_code[1])
           THEN Append(errors,
                       ErrFallback(cfg.require_fallback_code[1] \o PngExt))
           ELSE errors
    /\ pc' = "allowlist"
    /\ UNCHANGED << inputs, loopvars, cfg, warnings, ret_site, exit_code,
                    report_calls, output >>

\* path.read_text(encoding="utf-8") raises: IsADirectoryError on a directory,
\* UnicodeDecodeError on bytes that are not UTF-8
ReadRaises == al_kind \in { "dir", "binary" }

\* lines 197-219
CheckAllowlist ==
    /\ pc = "allowlist"
    /\ IF ~cfg.allowlist_path
       THEN /\ pc' = "report"
            /\ ret_site' = "final"
            /\ UNCHANGED << errors, warnings >>
       ELSE IF al_kind = "missing"
       THEN /\ errors' = Append(errors, ErrNoAllowlist)
            /\ pc' = "report"
            /\ ret_site' = "final"
            /\ UNCHANGED warnings
       ELSE IF ReadRaises
       THEN /\ pc' = "raised"
            /\ UNCHANGED << errors, warnings, ret_site >>
       ELSE LET required_codes == read_allowlist(al_content)
                present_codes == DOMAIN seen_normalized
                missing == MissingCodes(required_codes, present_codes)
                extra == ExtraCodes(required_codes, present_codes)
            IN  /\ errors' = IF missing # << >>
                             THEN Append(errors, ErrMissing(missing))
                             ELSE errors
                /\ warnings' = IF extra # << >>
                               THEN Append(warnings, WarnExtra(extra))
                               ELSE warnings
                /\ pc' = "report"
                /\ ret_site' = "final"
    /\ UNCHANGED << inputs, loopvars, cfg, exit_code, report_calls, output >>

\* the call of report: lines 147, 152, 163, 221 and 226-239
Report ==
    /\ pc = "report"
    /\ output' = output \o ReportLines(errors, warnings)
    /\ report_calls' = report_calls + 1
    /\ pc' = "return"
    /\ UNCHANGED << inputs, loopvars, cfg, errors, warnings, ret_site,
                    exit_code >>

\* lines 148, 153, 164 (return 2) and 223
Return ==
    /\ pc = "return"
    /\ exit_code' = IF ret_site = "final" THEN ExitCodeOf(errors) ELSE 2
    /\ pc' = "done"
    /\ UNCHANGED << inputs, loopvars, cfg, errors, warnings, ret_site,
                    report_calls, output >>

Next ==
    \/ Configure
    \/ CheckExists
    \/ CheckIsDir
    \/ Enumerate
    \/ ValidateFile
    \/ CheckFallback
    \/ CheckAllowlist
    \/ Report
    \/ Return

Spec == Init /\ [][Next]_vars

----------------------------------------------------------------------------
(* validate_filename on its own: every code up to MaxCodeLen characters *)

\* the longest code validate_filename is called with
MaxCodeLen == 3

CodeChars == { "a", "z", "A", "7", "-", "_", "\n" }

Codes == UNION { [ 1..n -> CodeChars ] : n \in 0..MaxCodeLen }

ExtraSets == SUBSET { << "A" >>, << "_", "a" >> }

\* a call validate_filename(code, cfg) about to be made
InitValidate ==
    /\ res_kind = "missing"
    /\ res_entries = EmptyDict
    /\ al_kind = "missing"
    /\ al_content = << >>
    /\ args \in { a \in ArgSets :
                    a.require_fallback = << >> /\ a.allow_extra = << >>
                        /\ ~a.allowlist }
    /\ cfg \in { [ MakeConfig(args) EXCEPT !.extra_allowed_codes = x ] :
                   x \in ExtraSets }
    /\ pc = "vf_call"
    /\ errors = << >>
    /\ warnings = << >>
    /\ pngs = << >>
    /\ idx = 1
    /\ seen_normalized = EmptyDict
    /\ ret_site = "none"
    /\ exit_code = -1
    /\ report_calls = 0
    /\ output = << >>
    /\ vf_code \in Codes
    /\ vf_result = NoResult

\* lines 65-84
CallValidate ==
    /\ pc = "vf_call"
    /\ vf_result' = validate_filename(vf_code, cfg)
    /\ pc' = "vf_done"
    /\ UNCHANGED << inputs, cfg, errors, warnings, pngs, idx, seen_normalized,
                    ret_site, exit_code, report_calls, output, vf_code >>

NextValidate == CallValidate

SpecValidate == InitValidate /\ [][NextValidate]_vars

----------------------------------------------------------------------------
(* What the properties below speak of *)

\* of every file name considered: its base name trimmed and lower-cased
CodeOfName == [ n \in FileNames |-> Lower(Strip(Stem(n))) ]

\* of every file name considered: whether its extension is .png in any case
HasPngExtension == [ n \in FileNames |-> Lower(Suffix(n)) = PngExt ]

\* of every two file names considered: whether the first sorts before the second
SortsBefore == [ p \in FileNames \X FileNames |-> StrLess(p[1], p[2]) ]

\* the PNG files of the resources directory
Discovered ==
    { n \in DOMAIN res_entries : res_entries[n] = "file" /\ HasPngExtension[n] }

\* the files whose base name, trimmed and lower-cased, is c
Group(c) == { n \in Discovered : CodeOfName[n] = c }

\* the first of them in sorted order
FirstOf(c) ==
    CHOOSE n \in Group(c) : \A m \in Group(c) \ { n } : SortsBefore[<< n, m >>]

PresentCodes == { CodeOfName[n] : n \in Discovered }

\* how many messages of a list satisfy a test
HowMany(list, Test(_)) == Cardinality({ i \in DOMAIN list : Test(list[i]) })

\* the loop over the files is over
LoopDone == pc \in { "fallback", "allowlist", "report", "return", "done", "raised" }
                /\ ret_site \in { "none", "final" }

\* the three preconditions of main hold
PreconditionsHold == res_kind = "dir" /\ Discovered # {}

\* main is over: it returned or an exception left it
Terminated == pc \in { "done", "raised" }

----------------------------------------------------------------------------
(* C1 *)

\* C1: whenever main has returned, its exit code is 2 if errors is non-empty
\* and 0 if errors is empty, whatever warnings holds.
C1_ExitCodeFollowsErrors ==
    pc = "done" =>
        /\ exit_code \in { 0, 2 }
        /\ exit_code = 2 <=> errors # << >>
        /\ exit_code = 0 <=> errors = << >>

\* a run that produced warnings and no error returned 0
C1_WarningsOnlyReturnsZero ==
    pc = "done" /\ warnings # << >> /\ errors = << >> /\ exit_code = 0

----------------------------------------------------------------------------
(* C2 *)

TwoLowercaseLetters(code) ==
    Len(code) = 2 /\ \A i \in 1..2 : code[i] \in LowerLetters

LenientKey(code) ==
    /\ Len(code) >= 1
    /\ code[1] \in LowerLetters \cup Digits
    /\ \A i \in 2..Len(code) : code[i] \in LowerLetters \cup Digits \cup { "-" }

\* C2: validate_filename(code, cfg) passes a code of cfg.extra_allowed_codes;
\* any other code passes in strict mode exactly when it is two lowercase
\* letters, else fails with the alpha-2 reason; in lenient mode exactly when it
\* is a lowercase letter or digit followed by lowercase letters, digits or
\* hyphens, else fails with the invalid-key-format reason.
C2_ValidateFilenameDecision ==
    pc = "vf_done" =>
        IF vf_code \in cfg.extra_allowed_codes
        THEN vf_result = [ ok |-> TRUE, reason |-> "None" ]
        ELSE IF cfg.strict_alpha2
        THEN vf_result = IF TwoLowercaseLetters(vf_code)
                         THEN [ ok |-> TRUE, reason |-> "None" ]
                         ELSE [ ok |-> FALSE, reason |-> ReasonAlpha2 ]
        ELSE vf_result = IF LenientKey(vf_code)
                         THEN [ ok |-> TRUE, reason |-> "None" ]
                         ELSE [ ok |-> FALSE, reason |-> ReasonFormat ]

----------------------------------------------------------------------------
(* C9 *)

\* C9: no run ends in an uncaught exception: main always returns 0 or 2,
\* after one call of report.
C9_NoUncaughtException ==
    /\ pc # "raised"
    /\ pc = "done" => exit_code \in { 0, 2 } /\ report_calls = 1

----------------------------------------------------------------------------
(* C3 *)

IsDuplicateOf(c, m) == m.kind = "duplicate" /\ m.code = c

\* C3: the map from normalized code keeps the first file, in sorted order, that
\* produced the code; once the loop is over, the k files sharing a code have
\* produced exactly k-1 duplicate errors, one for each later file, each naming
\* the first file and that later file, and a code of one file has produced none.
C3_DuplicatesNameFirstFile ==
    /\ \A c \in DOMAIN seen_normalized : seen_normalized[c] = FirstOf(c)
    /\ LoopDone =>
          \A c \in PresentCodes :
              LET group == Group(c)
                  first == FirstOf(c)
                  IsDup(m) == IsDuplicateOf(c, m)
              IN  /\ HowMany(errors, IsDup) = Cardinality(group) - 1
                  /\ \A n \in group \ { first } :
                         LET this == ErrDuplicate(c, first, n)
                             IsThis(m) == m = this
                         IN  HowMany(errors, IsThis) = 1

\* three files share one code and the loop is over
C3_ThreeFilesOneCode ==
    /\ LoopDone
    /\ \E c \in PresentCodes :
           LET IsDup(m) == IsDuplicateOf(c, m)
           IN  Cardinality(Group(c)) = 3 /\ HowMany(errors, IsDup) = 2

----------------------------------------------------------------------------
(* C4 *)

\* C4: once the loop is over, a file whose base name differs from its trimmed,
\* lower-cased form has exactly one warning, recommending that form + ".png",
\* and a file whose base name is already in that form has none; a file has an
\* invalid-filename error exactly when the trimmed, lower-cased code fails
\* validate_filename, a duplicate error exactly when an earlier file has the
\* same trimmed, lower-cased code, and once the allowlist is compared no
\* trimmed, lower-cased code of a file is listed as missing.
C4_ChecksUseNormalizedCode ==
    LoopDone =>
        \A n \in Discovered :
            LET raw == Stem(n)
                norm == CodeOfName[n]
                IsWarn(m) == m.kind = "non_normalized" /\ m.names[1] = n
                IsInvalid(m) == m.kind = "invalid" /\ m.names[1] = n
                IsLater(m) == m.kind = "duplicate" /\ m.names[2] = n
                ListsNorm(m) ==
                    m.kind = "missing_codes" /\ norm \in Range(m.names)
            IN  /\ HowMany(warnings, IsWarn) = IF raw # norm THEN 1 ELSE 0
                /\ raw # norm =>
                       \E i \in DOMAIN warnings :
                           /\ IsWarn(warnings[i])
                           /\ warnings[i].names[2] = norm \o PngExt
                /\ HowMany(errors, IsInvalid) =
                       IF validate_filename(norm, cfg).ok THEN 0 ELSE 1
                /\ HowMany(errors, IsLater) =
                       IF n = FirstOf(norm) THEN 0 ELSE 1
                /\ HowMany(errors, ListsNorm) = 0

\* " Us.png" and "us.png" with an allowlist naming us: " Us.png" is warned
\* about, passes as us, collides with us.png and covers the allowlist's us
C4_MixedCaseFile ==
    /\ pc = "done"
    /\ F_Us \in Discovered /\ F_us \in Discovered
    /\ cfg.allowlist_path /\ al_kind = "text"
    /\ s_us \in read_allowlist(al_content)
    /\ \E i \in DOMAIN warnings :
           warnings[i] = WarnNonNormalized(F_Us, s_us)
    /\ \E i \in DOMAIN errors : errors[i] = ErrDuplicate(s_us, F_Us, F_us)
    /\ \A i \in DOMAIN errors : errors[i].kind = "duplicate"

----------------------------------------------------------------------------
(* C5 *)

AllowlistCompared ==
    /\ pc \in { "report", "return", "done" }
    /\ ret_site = "final"
    /\ cfg.allowlist_path
    /\ al_kind = "text"

IsMissingCodes(m) == m.kind = "missing_codes"

IsExtra(m) == m.kind = "extra"

\* C5: with R the codes read from an existing allowlist file and P the
\* normalized codes of the PNG files, errors holds a missing-codes error exactly
\* when R \ P is not empty, and it lists exactly R \ P; the codes of P \ R are
\* listed in a warning and in no error.
C5_AllowlistCoverage ==
    AllowlistCompared =>
        LET R == read_allowlist(al_content)
            P == PresentCodes
        IN  /\ HowMany(errors, IsMissingCodes) = IF R \ P # {} THEN 1 ELSE 0
            /\ \A i \in DOMAIN errors :
                   IsMissingCodes(errors[i]) =>
                       /\ Range(errors[i].names) = R \ P
                       /\ Len(errors[i].names) = Cardinality(R \ P)
            /\ HowMany(warnings, IsExtra) = IF P \ R # {} THEN 1 ELSE 0
            /\ \A i \in DOMAIN warnings :
                   IsExtra(warnings[i]) => Range(warnings[i].names) = P \ R
            /\ \A i \in DOMAIN errors :
                   /\ errors[i].kind \in { "invalid", "duplicate",
                                           "missing_fallback", "missing_codes" }
                   /\ IsMissingCodes(errors[i]) =>
                          \A c \in P \ R : c \notin Range(errors[i].names)

\* R = {us, gb, xx} and P = {us, gb}: xx is missing, nothing is extra
C5_OneCodeMissing ==
    /\ AllowlistCompared
    /\ read_allowlist(al_content) = { s_us, s_gb, s_xx }
    /\ PresentCodes = { s_us, s_gb }
    /\ \E i \in DOMAIN errors : errors[i] = ErrMissing(<< s_xx >>)
    /\ HowMany(warnings, IsExtra) = 0

----------------------------------------------------------------------------
(* C6 *)

IsFallbackError(m) == m.kind = "missing_fallback"

\* the fallback code as the command line gives it, trimmed and lower-cased
GivenFallback == Lower(Strip(args.require_fallback[1]))

\* C6: when --require-fallback gives a code f and the directory holds a PNG,
\* a run that returns has recorded a missing-fallback error naming f + ".png"
\* and returns 2 if the directory has no entry of that name, and has recorded
\* no missing-fallback error if it has one.
C6_FallbackRequired ==
    (pc = "done" /\ PreconditionsHold /\ args.require_fallback # << >>) =>
        IF (GivenFallback \o PngExt) \in DOMAIN res_entries
        THEN HowMany(errors, IsFallbackError) = 0
        ELSE /\ \E i \in DOMAIN errors :
                    errors[i] = ErrFallback(GivenFallback \o PngExt)
             /\ exit_code = 2

----------------------------------------------------------------------------
(* C7 *)

PreconditionError ==
    IF res_kind = "missing" THEN ErrNoDir
    ELSE IF res_kind = "file" THEN ErrNotDir
    ELSE ErrNoPng

\* C7: when the resources path is missing, is not a directory or holds no PNG
\* file, no file is validated, the fallback and allowlist checks are not
\* reached, and the run reports and returns 2 with the one precondition error
\* and no warning.
C7_PreconditionsStopTheRun ==
    ~PreconditionsHold =>
        /\ pc \in { "configure", "check_exists", "check_is_dir", "list_pngs",
                    "report", "return", "done" }
        /\ seen_normalized = EmptyDict /\ idx = 1 /\ vf_code = << >>
        /\ warnings = << >>
        /\ errors \in { << >>, << PreconditionError >> }
        /\ pc \in { "report", "return", "done" } =>
               errors = << PreconditionError >>
        /\ pc \in { "return", "done" } =>
               output = ReportLines(<< PreconditionError >>, << >>)
        /\ pc = "done" => exit_code = 2

\* a directory with entries but no PNG file, a fallback code and a missing
\* allowlist file: the run returned 2 with the no-PNG error alone
C7_NoPngWithFallbackAndAllowlist ==
    /\ pc = "done" /\ exit_code = 2
    /\ res_kind = "dir" /\ DOMAIN res_entries # {} /\ Discovered = {}
    /\ \E n \in DOMAIN res_entries : res_entries[n] = "dir"
    /\ args.require_fallback = << s_xx >>
    /\ args.allowlist /\ al_kind = "missing"
    /\ errors = << ErrNoPng >>

----------------------------------------------------------------------------
(* C8 *)

\* the errors of the files pngs[1..k], in the order the loop meets them
RECURSIVE FileErrors(_)
FileErrors(k) ==
    IF k = 0 THEN << >>
    ELSE LET n == pngs[k]
             c == CodeOfName[n]
         IN  FileErrors(k - 1)
                 \o (IF validate_filename(c, cfg).ok THEN << >>
                     ELSE << ErrInvalid(n, validate_filename(c, cfg).reason) >>)
                 \o (IF n = FirstOf(c) THEN << >>
                     ELSE << ErrDuplicate(c, FirstOf(c), n) >>)

FallbackErrors ==
    IF /\ Truthy(cfg.require_fallback_code)
       /\ (cfg.require_fallback_code[1] \o PngExt) \notin DOMAIN res_entries
    THEN << ErrFallback(cfg.require_fallback_code[1] \o PngExt) >>
    ELSE << >>

AllowlistErrors ==
    IF ~cfg.allowlist_path THEN << >>
    ELSE IF al_kind = "missing" THEN << ErrNoAllowlist >>
    ELSE IF al_kind = "text" /\ read_allowlist(al_content) \ PresentCodes # {}
    THEN << ErrMissing(Sorted(read_allowlist(al_content) \ PresentCodes)) >>
    ELSE << >>

\* errors, each as the line report prints for it
ErrorLines == [ i \in 1..Len(errors) |-> Line("stderr", "error", errors[i]) ]

IsSubSeqAt(small, big, at) ==
    /\ at + Len(small) - 1 <= Len(big)
    /\ \A i \in 1..Len(small) : big[at + i - 1] = small[i]

\* C8: once the preconditions hold, the run ends by returning after one
\* report that prints, in this order, the name and duplicate errors of every
\* file, the fallback error and the allowlist error, none left out because an
\* earlier one was recorded.
C8_EveryCheckRuns ==
    (Terminated /\ PreconditionsHold) =>
        /\ pc = "done"
        /\ report_calls = 1
        /\ errors = FileErrors(Len(pngs)) \o FallbackErrors \o AllowlistErrors
        /\ \E at \in 1..(Len(output) + 1) : IsSubSeqAt(ErrorLines, output, at)

\* the same, of the runs that return
C8_EveryCheckRunsWhenReturning ==
    (pc = "done" /\ PreconditionsHold) =>
        /\ report_calls = 1
        /\ errors = FileErrors(Len(pngs)) \o FallbackErrors \o AllowlistErrors
        /\ \E at \in 1..(Len(output) + 1) : IsSubSeqAt(ErrorLines, output, at)

\* one run reports an invalid filename, a duplicate, a missing fallback file
\* and a missing allowlist file
C8_FourErrorsInOneRun ==
    /\ pc = "done"
    /\ Len(errors) = 4
    /\ errors[1].kind = "invalid" /\ errors[2].kind = "duplicate"
    /\ errors[3].kind = "missing_fallback" /\ errors[4].kind = "no_allowlist"

----------------------------------------------------------------------------
(* C10 *)

\* the steps of the pipeline, numbered in the order main takes them
StepOf ==
    [ s \in { "configure", "check_exists", "check_is_dir", "list_pngs",
              "validate", "fallback", "allowlist", "report", "return", "done",
              "raised" } |->
        CASE s = "configure" -> 1
          [] s \in { "check_exists", "check_is_dir", "list_pngs" } -> 2
          [] s = "validate" -> 3
          [] s \in { "fallback", "allowlist" } -> 4
          [] s = "report" -> 5
          [] OTHER -> 6 ]

WarningKinds == { "warnings_heading", "warning" }

ErrorKinds == { "errors_heading", "error" }

\* what is printed: warnings before errors, the failure notice after the
\* errors, the success line exactly when there is no error
WellReported ==
    /\ \A i, j \in DOMAIN output :
           (output[i].kind \in ErrorKinds /\ output[j].kind \in WarningKinds)
               => j < i
    /\ \A i, j \in DOMAIN output :
           (output[i].kind = "failed" /\ output[j].kind # "failed") => j < i
    /\ [ i \in 1..Len(warnings) |-> Line("stderr", "warning", warnings[i]) ]
           = SelectSeq(output, LAMBDA l : l.kind = "warning")
    /\ [ i \in 1..Len(errors) |-> Line("stderr", "error", errors[i]) ]
           = SelectSeq(output, LAMBDA l : l.kind = "error")
    /\ Len(SelectSeq(output, LAMBDA l : l.kind = "failed"))
           = IF errors # << >> THEN 1 ELSE 0
    /\ Len(SelectSeq(output, LAMBDA l : l.kind = "ok"))
           = IF errors = << >> THEN 1 ELSE 0

ReportedOnce ==
    /\ pc \in { "return", "done" } => report_calls = 1 /\ WellReported
    /\ pc \notin { "return", "done" } => report_calls = 0 /\ output = << >>

\* a step after the report records nothing and prints nothing, and no step
\* goes back to an earlier step of the pipeline
NothingAfterReport ==
    /\ StepOf[pc'] >= StepOf[pc]
    /\ pc \in { "return", "done" } =>
           /\ errors' = errors /\ warnings' = warnings
           /\ output' = output /\ report_calls' = report_calls
           /\ seen_normalized' = seen_normalized

\* C10: on every path of main that returns, report is called exactly once,
\* after the last check and before the return; no check runs after it and no
\* step of the pipeline is entered again; report prints the warnings before the
\* errors, the failure notice after the errors, and the success line exactly
\* when errors is empty.
C10_ReportOnceAtTheEnd == []ReportedOnce /\ [][NothingAfterReport]_vars

\* a run that returned after printing warnings and then the success line
C10_WarningsThenSuccessLine ==
    /\ pc = "done" /\ report_calls = 1
    /\ Len(output) >= 3
    /\ output[1].kind = "warnings_heading"
    /\ output[Len(output)] = Line("stdout", "ok", NoMsg)

====
